---- MODULE Spec2Model ----
(***************************************************************************)
(* Model of the emscripten syscall layer of wasmer                          *)
(* (lib/emscripten/src/syscalls/mod.rs).  Guest memory is a byte array;    *)
(* every handler is one action that packs the guest's argument words,      *)
(* runs the handler body and records what the call did in `last`.          *)
(* 32-bit words are kept as signed integers in -2^31 .. 2^31-1; a u32 is   *)
(* the same bit pattern, so a negative word read as an offset is an offset *)
(* of 2^31 or more.                                                        *)
(***************************************************************************)
EXTENDS Integers, Sequences, FiniteSets, TLC

VARIABLES memory,  \* guest linear memory: memory[a + 1] is the byte at offset a
          cwd,     \* host working directory, a sequence of bytes
          dirs,    \* directories that exist on the host
          pos,     \* host file offset of the open descriptor
          proc,    \* "running", "exited", "panicked", "killed"
          stack,   \* where the guest packs the argument words of its calls
          steps,   \* number of guest steps taken so far
          last     \* record of the last syscall invocation

vars == <<memory, cwd, dirs, pos, proc, stack, steps, last>>

(***************************** bounds **************************************)
MaxSteps == 2
MaxIov == 2
GrowBytes == 8
FileSize == 6

(************************* program constants *******************************)
PtrAlign == 8
RlimitBytes == 16
IovecBytes == 8
SlotBytes == 4
ArgWords == 6

(***************************** layout **************************************)
\* Where the guest of the model keeps its data.  Offsets are derived so that
\* the regions do not overlap whatever the bounds are.
StatLen == 9 * 4 + 4 * 8
Anchors == {0, SlotBytes}
IovBase == SlotBytes * (ArgWords + 1)
PathBase == IovBase + IovecBytes * MaxIov
DataBase == PathBase + 8
InitSize == DataBase + StatLen + 4
TailBase == InitSize - 4
Edge == InitSize - 2
Beyond == InitSize + 4

\* The host of the model: one open descriptor, two directories, one process.
OpenFds == {3}
FdChoices == {3, 9}
HostPids == {42}
Root == << 47 >>
DirA == << 47, 97 >>
TailText == << 122, 122, 122, 122 >>

(************************* bytes and words *********************************)
Min(a, b) == IF a < b THEN a ELSE b
Max(a, b) == IF a > b THEN a ELSE b

\* LittleEndian::write_i32: the four bytes of a 32-bit word, low byte first.
ToBytes(v) ==
    LET w == IF v < 0 THEN (v + 2147483647) + 1 ELSE v
        top == (w \div 16777216) + (IF v < 0 THEN 128 ELSE 0)
    IN  << w % 256, (w \div 256) % 256, (w \div 65536) % 256, top >>

\* The 32-bit word four little-endian bytes stand for.
FromBytes(b) ==
    LET low == b[1] + 256 * b[2] + 65536 * b[3]
    IN  IF b[4] >= 128
        THEN ((b[4] - 128) * 16777216 + low - 2147483647) - 1
        ELSE b[4] * 16777216 + low

Size(mem) == Len(mem)

\* The byte read at host address base + a.  Inside the region it is the
\* guest byte.  Outside it is whatever the host has there: the caller records
\* the access, and no result below depends on the value read (a path that
\* runs past the end of the region names no directory of the host, whatever
\* follows it).
ByteAt(mem, a) == IF a >= 0 /\ a < Size(mem) THEN mem[a + 1] ELSE 0

WordAt(mem, a) ==
    FromBytes(<< ByteAt(mem, a), ByteAt(mem, a + 1),
                 ByteAt(mem, a + 2), ByteAt(mem, a + 3) >>)

\* Addresses of [a, a + n) that lie outside the guest region.
Outside(mem, a, n) == { x \in a .. (a + n - 1) : x < 0 \/ x >= Size(mem) }

\* A raw store of the bytes bs through a pointer to offset a: the bytes that
\* fall inside the region change guest memory, the others land outside.
RawStore(mem, a, bs) ==
    [ i \in 1 .. Size(mem) |->
        IF i - 1 >= a /\ i - 1 < a + Len(bs) THEN bs[i - a] ELSE mem[i] ]

RECURSIVE Flatten(_)
Flatten(ws) == IF ws = << >> THEN << >> ELSE ToBytes(Head(ws)) \o Flatten(Tail(ws))

\* The guest packs the argument words of a call at the anchor.
PackArgs(mem, anchor, ws) == RawStore(mem, anchor, Flatten(ws))

(************************ address translation ******************************)
\* emscripten_memory_pointer!(memory, offset): a host pointer to the offset.
\* Only the offset takes part: an offset past the end of the region is
\* rejected, the length of the access is not known here.
PointerOk(mem, off) == off >= 0 /\ off <= Size(mem)

(*************************** argument cursor *******************************)
\* VarArgs::get: the word at the cursor, and the cursor one slot further.
VarArgsGet(mem, va) == [val |-> WordAt(mem, va), next |-> va + SlotBytes]

(****************************** host ***************************************)
\* A call the handler made into the host or into a guest helper.
Call(fn, ret) == [fn |-> fn, ret |-> ret]

\* CStr at a pointer: the bytes from offset a up to the first NUL.  The scan
\* does not know where the region ends.
RECURSIVE CString(_, _)
CString(mem, a) ==
    IF ByteAt(mem, a) = 0 THEN << >> ELSE << ByteAt(mem, a) >> \o CString(mem, a + 1)

\* The addresses outside the region that the scan of a C string reads.
CStringOutside(mem, a) == Outside(mem, a, Len(CString(mem, a)) + 1)

host_chdir(path, ds) == IF path \in ds THEN 0 ELSE -1
host_rmdir(path, ds) == IF path \in ds /\ path # Root THEN 0 ELSE -1
host_stat(path, ds) == IF path \in ds THEN 0 ELSE -1
host_fstat(fd) == IF fd \in OpenFds THEN 0 ELSE -1

\* lseek(2) on the host: the new offset, or -1.
host_lseek(fd, offset, whence, p) ==
    LET target == CASE whence = 0 -> offset
                    [] whence = 1 -> p + offset
                    [] whence = 2 -> FileSize + offset
                    [] OTHER -> -1
    IN  IF fd \in OpenFds /\ target >= 0 THEN target ELSE -1

\* The file behind the open descriptor holds the bytes 11, 12, ...
FileByte(i) == 10 + i

\* read(2) on the host: the number of bytes transferred, or -1.
host_read(fd, n, p, fails) ==
    IF fails \/ fd \notin OpenFds \/ n < 0 THEN -1 ELSE Max(0, Min(n, FileSize - p))

ReadData(p, k) == [ i \in 1 .. k |-> FileByte(p + i) ]

\* The host stat record of the one file system object of the model.
HostStat ==
    [ st_dev |-> 1, st_ino |-> 2, st_mode |-> 16877, st_nlink |-> 3,
      st_uid |-> 1000, st_gid |-> 100, st_rdev |-> 0, st_size |-> 4096,
      st_blksize |-> 512, st_blocks |-> 8,
      st_atime |-> 7, st_mtime |-> 8, st_ctime |-> 9 ]

\* A 64-bit field as two little-endian words (the values here are >= 0).
Wide(v) == ToBytes(v) \o ToBytes(0)

\* The guest layout of a stat record.
StatRecord(st) ==
    ToBytes(st.st_dev) \o ToBytes(st.st_ino) \o ToBytes(st.st_mode)
    \o ToBytes(st.st_nlink) \o ToBytes(st.st_uid) \o ToBytes(st.st_gid)
    \o ToBytes(st.st_rdev) \o Wide(st.st_size) \o ToBytes(st.st_blksize)
    \o ToBytes(st.st_blocks) \o Wide(st.st_atime) \o Wide(st.st_mtime)
    \o Wide(st.st_ctime)

\* utils::copy_stat_into_wasm: the whole record is written, or nothing is.
StatFits(mem, buf) == buf >= 0 /\ buf + StatLen <= Size(mem)
copy_stat_into_wasm(mem, buf, st) == RawStore(mem, buf, StatRecord(st))

\* env::call_memset: the guest's memset over [ptr, ptr + len).
call_memset(mem, ptr, v, len) == RawStore(mem, ptr, [ i \in 1 .. len |-> v ])

(***************************** handlers ************************************)
\* What one handler invocation did: the guest memory it leaves, its 32-bit
\* result, where the argument cursor stands, the argument values it read in
\* order, the addresses outside the region it accessed, how it ended
\* ("returned", "exited", "panicked", "rejected"), the host and helper calls it
\* made, and the host state it leaves.
Result(mem, ret, cursor, reads, oob, end, host, c, d, p) ==
    [ mem |-> mem, ret |-> ret, cursor |-> cursor, reads |-> reads, oob |-> oob,
      end |-> end, host |-> host, cwd |-> c, dirs |-> d, pos |-> p ]

\* exit
___syscall1(mem, varargs, c, d, p) ==
    LET a1 == VarArgsGet(mem, varargs)
        status == a1.val
    IN  Result(mem, status, a1.next, << status >>, {}, "exited",
               << Call("exit", status) >>, c, d, p)

\* chdir
___syscall12(mem, varargs, c, d, p) ==
    LET a1 == VarArgsGet(mem, varargs)
        path_addr == a1.val
        path == CString(mem, path_addr)
        ret == host_chdir(path, d)
    IN  IF ~PointerOk(mem, path_addr)
        THEN Result(mem, 0, a1.next, << path_addr >>, {}, "rejected", << >>, c, d, p)
        ELSE Result(mem, ret, a1.next, << path_addr >>, CStringOutside(mem, path_addr),
                    "returned", << Call("chdir", ret) >>,
                    IF ret = 0 THEN path ELSE c, d, p)

\* the handlers that are not implemented: ___syscall10, 38, 60, ...
Unimplemented == {10, 38, 60, 66, 75, 85, 91, 97, 110, 168, 191, 199, 220,
                  268, 272, 295, 300, 334}
___syscallStub(mem, one, two, c, d, p) ==
    Result(mem, -1, 0, << >>, {}, "returned", << >>, c, d, p)

\* getpid
___syscall20(mem, pid, c, d, p) ==
    Result(mem, pid, 0, << >>, {}, "returned", << Call("getpid", pid) >>, c, d, p)

\* getppid
___syscall64(mem, pid, c, d, p) ==
    Result(mem, pid, 0, << >>, {}, "returned", << Call("getpid", pid) >>, c, d, p)

\* rmdir
___syscall40(mem, varargs, c, d, p) ==
    LET a1 == VarArgsGet(mem, varargs)
        pathname == a1.val
        path == CString(mem, pathname)
        ret == host_rmdir(path, d)
    IN  IF ~PointerOk(mem, pathname)
        THEN Result(mem, 0, a1.next, << pathname >>, {}, "rejected", << >>, c, d, p)
        ELSE Result(mem, ret, a1.next, << pathname >>, CStringOutside(mem, pathname),
                    "returned", << Call("rmdir", ret) >>,
                    c, IF ret = 0 THEN d \ {path} ELSE d, p)

\* A getcwd that holds the caller to the size it gave.
getcwdChecksSize(mem, varargs, c, d, p) ==
    LET a1 == VarArgsGet(mem, varargs)
        buf_offset == a1.val
        a2 == VarArgsGet(mem, a1.next)
        size == a2.val
        reads == << buf_offset, size >>
        path_ok == c \in d
        path_string == c
        len == Len(path_string)
    IN  IF ~path_ok
        THEN Result(mem, 0, a2.next, reads, {}, "panicked",
                    << Call("current_dir", -1) >>, c, d, p)
        ELSE IF ~PointerOk(mem, buf_offset)
        THEN Result(mem, 0, a2.next, reads, {}, "rejected",
                    << Call("current_dir", 0) >>, c, d, p)
        ELSE IF size < len + 1
        THEN Result(mem, -1, a2.next, reads, {}, "returned",
                    << Call("current_dir", 0) >>, c, d, p)
        ELSE Result(RawStore(mem, buf_offset, path_string \o << 0 >>), buf_offset,
                    a2.next, reads, Outside(mem, buf_offset, len + 1), "returned",
                    << Call("current_dir", 0) >>, c, d, p)

\* getcwd
___syscall183(mem, varargs, c, d, p) ==
    LET a1 == VarArgsGet(mem, varargs)
        buf_offset == a1.val
        a2 == VarArgsGet(mem, a1.next)
        size == a2.val
        reads == << buf_offset, size >>
        path_ok == c \in d       \* env::current_dir() is Ok
        path_string == c
        len == Len(path_string)
    IN  IF ~path_ok              \* path.unwrap() on an Err
        THEN Result(mem, 0, a2.next, reads, {}, "panicked",
                    << Call("current_dir", -1) >>, c, d, p)
        ELSE IF ~PointerOk(mem, buf_offset)
        THEN Result(mem, 0, a2.next, reads, {}, "rejected",
                    << Call("current_dir", 0) >>, c, d, p)
        ELSE Result(RawStore(mem, buf_offset, path_string \o << 0 >>), buf_offset,
                    a2.next, reads, Outside(mem, buf_offset, len + 1), "returned",
                    << Call("current_dir", 0) >>, c, d, p)

\* An mmap that hands out the block as the allocator left it.
mmapWithoutFill(mem, varargs, alloc, c, d, p) ==
    LET a1 == VarArgsGet(mem, varargs)
        a2 == VarArgsGet(mem, a1.next)
        len == a2.val
        a3 == VarArgsGet(mem, a2.next)
        a4 == VarArgsGet(mem, a3.next)
        a5 == VarArgsGet(mem, a4.next)
        fd == a5.val
        a6 == VarArgsGet(mem, a5.next)
        reads == << a1.val, len, a3.val, a4.val, fd, a6.val >>
        ptr == alloc
        memalign == Call("memalign", ptr)
    IN  IF fd = -1
        THEN IF ptr = 0
             THEN Result(mem, -1, a6.next, reads, {}, "returned",
                         << memalign >>, c, d, p)
             ELSE Result(mem, ptr, a6.next, reads, {},
                         "returned", << memalign, Call("memset", ptr) >>, c, d, p)
        ELSE Result(mem, -1, a6.next, reads, {}, "returned", << >>, c, d, p)

\* mmap2; alloc is what the guest's memalign answers
___syscall192(mem, varargs, alloc, c, d, p) ==
    LET a1 == VarArgsGet(mem, varargs)
        a2 == VarArgsGet(mem, a1.next)
        len == a2.val
        a3 == VarArgsGet(mem, a2.next)
        a4 == VarArgsGet(mem, a3.next)
        a5 == VarArgsGet(mem, a4.next)
        fd == a5.val
        a6 == VarArgsGet(mem, a5.next)
        reads == << a1.val, len, a3.val, a4.val, fd, a6.val >>
        ptr == alloc
        memalign == Call("memalign", ptr)
    IN  IF fd = -1
        THEN IF ptr = 0
             THEN Result(mem, -1, a6.next, reads, {}, "returned",
                         << memalign >>, c, d, p)
             ELSE Result(call_memset(mem, ptr, 0, len), ptr, a6.next, reads, {},
                         "returned", << memalign, Call("memset", ptr) >>, c, d, p)
        ELSE Result(mem, -1, a6.next, reads, {}, "returned", << >>, c, d, p)

\* An lseek that seeks by the high word of the offset.
lseekSeeksByHighWord(mem, varargs, c, d, p) ==
    LET a1 == VarArgsGet(mem, varargs)
        fd == a1.val
        a2 == VarArgsGet(mem, a1.next)
        offset_high == a2.val
        a3 == VarArgsGet(mem, a2.next)
        a4 == VarArgsGet(mem, a3.next)
        result_ptr_value == a4.val
        a5 == VarArgsGet(mem, a4.next)
        whence == a5.val
        reads == << fd, offset_high, a3.val, result_ptr_value, whence >>
        ret == host_lseek(fd, offset_high, whence, p)
        newpos == IF ret >= 0 THEN ret ELSE p
        host == << Call("lseek", ret) >>
    IN  IF ~PointerOk(mem, result_ptr_value)
        THEN Result(mem, 0, a5.next, reads, {}, "rejected", host, c, d, newpos)
        ELSE Result(RawStore(mem, result_ptr_value, ToBytes(ret)), 0, a5.next, reads,
                    Outside(mem, result_ptr_value, 4), "returned", host, c, d, newpos)

\* An lseek that takes the offset for one word: it does not read the high
\* word of the offset.
lseekOneOffsetWord(mem, varargs, c, d, p) ==
    LET a1 == VarArgsGet(mem, varargs)
        fd == a1.val
        a3 == VarArgsGet(mem, a1.next)
        offset_low == a3.val
        a4 == VarArgsGet(mem, a3.next)
        result_ptr_value == a4.val
        a5 == VarArgsGet(mem, a4.next)
        whence == a5.val
        reads == << fd, offset_low, result_ptr_value, whence >>
        ret == host_lseek(fd, offset_low, whence, p)
        newpos == IF ret >= 0 THEN ret ELSE p
        host == << Call("lseek", ret) >>
    IN  IF ~PointerOk(mem, result_ptr_value)
        THEN Result(mem, 0, a5.next, reads, {}, "rejected", host, c, d, newpos)
        ELSE Result(RawStore(mem, result_ptr_value, ToBytes(ret)), 0, a5.next, reads,
                    Outside(mem, result_ptr_value, 4), "returned", host, c, d, newpos)

\* lseek
___syscall140(mem, varargs, c, d, p) ==
    LET a1 == VarArgsGet(mem, varargs)
        fd == a1.val
        a2 == VarArgsGet(mem, a1.next)      \* ignore high offset
        a3 == VarArgsGet(mem, a2.next)
        offset_low == a3.val
        a4 == VarArgsGet(mem, a3.next)
        result_ptr_value == a4.val
        a5 == VarArgsGet(mem, a4.next)
        whence == a5.val
        reads == << fd, a2.val, offset_low, result_ptr_value, whence >>
        ret == host_lseek(fd, offset_low, whence, p)
        newpos == IF ret >= 0 THEN ret ELSE p
        host == << Call("lseek", ret) >>
    IN  IF ~PointerOk(mem, result_ptr_value)
        THEN Result(mem, 0, a5.next, reads, {}, "rejected", host, c, d, newpos)
        ELSE IF 8 # PtrAlign       \* assert_eq!(8, mem::align_of_val(&result_ptr))
        THEN Result(mem, 0, a5.next, reads, {}, "panicked", host, c, d, newpos)
        ELSE Result(RawStore(mem, result_ptr_value, ToBytes(ret)), 0, a5.next, reads,
                    Outside(mem, result_ptr_value, 4), "returned", host, c, d, newpos)

\* A readv that answers the bytes moved so far when a later read fails.
RECURSIVE ReadvLoopKeepsCount(_, _, _, _, _, _)
ReadvLoopKeepsCount(i, iovcnt, iov, fd, failAt, st) ==
    LET mem == st.mem
        guest_iov_addr == iov + i * IovecBytes
        iov_base == WordAt(mem, guest_iov_addr)
        iov_len == WordAt(mem, guest_iov_addr + 4)
        curr == host_read(fd, iov_len, st.pos, i = failAt)
        host == Append(st.host, Call("read", curr))
        oob == st.oob \cup Outside(mem, guest_iov_addr, IovecBytes)
    IN  IF i >= iovcnt THEN st
        ELSE IF ~PointerOk(mem, guest_iov_addr) \/ ~PointerOk(mem, iov_base)
        THEN [st EXCEPT !.end = "rejected"]
        ELSE IF curr < 0
        THEN [st EXCEPT !.ret = IF i = 0 THEN -1 ELSE st.ret, !.host = host,
                        !.oob = oob]
        ELSE ReadvLoopKeepsCount(i + 1, iovcnt, iov, fd, failAt,
                 [st EXCEPT !.mem = RawStore(mem, iov_base, ReadData(st.pos, curr)),
                            !.ret = st.ret + curr,
                            !.pos = st.pos + curr,
                            !.host = host,
                            !.oob = oob \cup Outside(mem, iov_base, curr)])

\* readv: the loop over the iovec array, from element i on.  failAt is the
\* element at which the host read fails (none when it is not below iovcnt).
RECURSIVE ReadvLoop(_, _, _, _, _, _)
ReadvLoop(i, iovcnt, iov, fd, failAt, st) ==
    LET mem == st.mem
        guest_iov_addr == iov + i * IovecBytes
        iov_base == WordAt(mem, guest_iov_addr)
        iov_len == WordAt(mem, guest_iov_addr + 4)
        curr == host_read(fd, iov_len, st.pos, i = failAt)
        host == Append(st.host, Call("read", curr))
        oob == st.oob \cup Outside(mem, guest_iov_addr, IovecBytes)
    IN  IF i >= iovcnt THEN st
        ELSE IF ~PointerOk(mem, guest_iov_addr) \/ ~PointerOk(mem, iov_base)
        THEN [st EXCEPT !.end = "rejected"]
        ELSE IF curr < 0
        THEN [st EXCEPT !.ret = -1, !.host = host, !.oob = oob]
        ELSE ReadvLoop(i + 1, iovcnt, iov, fd, failAt,
                 [st EXCEPT !.mem = RawStore(mem, iov_base, ReadData(st.pos, curr)),
                            !.ret = st.ret + curr,
                            !.pos = st.pos + curr,
                            !.host = host,
                            !.oob = oob \cup Outside(mem, iov_base, curr)])

___syscall145(mem, varargs, failAt, c, d, p) ==
    LET a1 == VarArgsGet(mem, varargs)
        fd == a1.val
        a2 == VarArgsGet(mem, a1.next)
        iov == a2.val
        a3 == VarArgsGet(mem, a2.next)
        iovcnt == a3.val
    IN  ReadvLoop(0, iovcnt, iov, fd, failAt,
            Result(mem, 0, a3.next, << fd, iov, iovcnt >>, {}, "returned",
                   << >>, c, d, p))

\* stat64
___syscall195(mem, varargs, c, d, p) ==
    LET a1 == VarArgsGet(mem, varargs)
        pathname == a1.val
        a2 == VarArgsGet(mem, a1.next)
        buf == a2.val
        reads == << pathname, buf >>
        ret == host_stat(CString(mem, pathname), d)
        host == << Call("stat", ret) >>
        oob == CStringOutside(mem, pathname)
    IN  IF ~PointerOk(mem, pathname)
        THEN Result(mem, 0, a2.next, reads, {}, "rejected", << >>, c, d, p)
        ELSE IF ret # 0
        THEN Result(mem, ret, a2.next, reads, oob, "returned", host, c, d, p)
        ELSE IF ~StatFits(mem, buf)
        THEN Result(mem, 0, a2.next, reads, oob, "rejected", host, c, d, p)
        ELSE Result(copy_stat_into_wasm(mem, buf, HostStat), 0, a2.next, reads, oob,
                    "returned", host, c, d, p)

\* An fstat that marshals before it looks at the host's answer.
fstatMarshalsFirst(mem, varargs, c, d, p) ==
    LET a1 == VarArgsGet(mem, varargs)
        fd == a1.val
        a2 == VarArgsGet(mem, a1.next)
        buf == a2.val
        reads == << fd, buf >>
        ret == host_fstat(fd)
        host == << Call("fstat", ret) >>
    IN  IF ~StatFits(mem, buf)
        THEN Result(mem, 0, a2.next, reads, {}, "rejected", host, c, d, p)
        ELSE Result(copy_stat_into_wasm(mem, buf, HostStat), ret, a2.next, reads, {},
                    "returned", host, c, d, p)

\* fstat64
___syscall197(mem, varargs, c, d, p) ==
    LET a1 == VarArgsGet(mem, varargs)
        fd == a1.val
        a2 == VarArgsGet(mem, a1.next)
        buf == a2.val
        reads == << fd, buf >>
        ret == host_fstat(fd)
        host == << Call("fstat", ret) >>
    IN  IF ret # 0
        THEN Result(mem, ret, a2.next, reads, {}, "returned", host, c, d, p)
        ELSE IF ~StatFits(mem, buf)
        THEN Result(mem, 0, a2.next, reads, {}, "rejected", host, c, d, p)
        ELSE Result(copy_stat_into_wasm(mem, buf, HostStat), 0, a2.next, reads, {},
                    "returned", host, c, d, p)

\* An fcntl that knows one of the two lock commands only.
fcntlOneLockCommand(mem, varargs, c, d, p) ==
    LET a1 == VarArgsGet(mem, varargs)
        fd == a1.val
        a2 == VarArgsGet(mem, a1.next)
        cmd == a2.val
        ret == CASE cmd = 2 -> 0
                 [] cmd \in {13} -> 0
                 [] OTHER -> -1
    IN  Result(mem, ret, a2.next, << fd, cmd >>, {}, "returned", << >>, c, d, p)

\* fcntl64
___syscall221(mem, varargs, c, d, p) ==
    LET a1 == VarArgsGet(mem, varargs)
        fd == a1.val
        a2 == VarArgsGet(mem, a1.next)
        cmd == a2.val
        ret == CASE cmd = 2 -> 0
                 [] cmd \in {13, 14} -> 0     \* pretend file locking worked
                 [] OTHER -> -1
    IN  Result(mem, ret, a2.next, << fd, cmd >>, {}, "returned", << >>, c, d, p)

\* A prlimit64 that reports two words instead of four.
prlimitTwoWords(mem, varargs, c, d, p) ==
    LET a1 == VarArgsGet(mem, varargs)
        a2 == VarArgsGet(mem, a1.next)
        a3 == VarArgsGet(mem, a2.next)
        a4 == VarArgsGet(mem, a3.next)
        old_limit == a4.val
        reads == << a1.val, a2.val, a3.val, old_limit >>
        buf == ToBytes(-1) \o ToBytes(-1)
    IN  IF old_limit # 0
        THEN IF ~PointerOk(mem, old_limit)
             THEN Result(mem, 0, a4.next, reads, {}, "rejected", << >>, c, d, p)
             ELSE Result(RawStore(mem, old_limit, buf), 0, a4.next, reads,
                         Outside(mem, old_limit, 8), "returned", << >>,
                         c, d, p)
        ELSE Result(mem, 0, a4.next, reads, {}, "returned", << >>, c, d, p)

\* prlimit64
___syscall340(mem, varargs, c, d, p) ==
    LET a1 == VarArgsGet(mem, varargs)
        a2 == VarArgsGet(mem, a1.next)
        a3 == VarArgsGet(mem, a2.next)
        a4 == VarArgsGet(mem, a3.next)
        old_limit == a4.val
        reads == << a1.val, a2.val, a3.val, old_limit >>
        \* RLIM_INFINITY, four times
        buf == ToBytes(-1) \o ToBytes(-1) \o ToBytes(-1) \o ToBytes(-1)
    IN  IF old_limit # 0
        THEN IF ~PointerOk(mem, old_limit)
             THEN Result(mem, 0, a4.next, reads, {}, "rejected", << >>, c, d, p)
             ELSE Result(RawStore(mem, old_limit, buf), 0, a4.next, reads,
                         Outside(mem, old_limit, RlimitBytes), "returned", << >>,
                         c, d, p)
        ELSE Result(mem, 0, a4.next, reads, {}, "returned", << >>, c, d, p)

(************************** the state machine ******************************)
Zeroes(n) == [ i \in 1 .. n |-> 0 ]

\* Guest memory as instantiated: zero, but for the data segment (the paths
\* "/a" and "/" and, at the very end of the region, four bytes without a NUL
\* after them).
InitMemory ==
    RawStore(RawStore(RawStore(Zeroes(InitSize), PathBase, DirA \o << 0 >>),
                      PathBase + 4, Root \o << 0 >>),
             TailBase, TailText)

NoCall ==
    [ name |-> "none", anchor |-> 0, args |-> << >>, pre |-> InitMemory,
      reads |-> << >>, cursor |-> 0, ret |-> 0, end |-> "returned", oob |-> {},
      host |-> << >> ]

Init ==
    /\ memory = InitMemory
    /\ cwd = DirA
    /\ dirs = {Root, DirA}
    /\ pos = 0
    /\ proc = "running"
    /\ stack = 0
    /\ steps = 0
    /\ last = NoCall

CanStep == proc = "running" /\ steps < MaxSteps

\* The handler has run as r says.  An access outside the region is undefined
\* behaviour: the host kills the process or the access goes through.
Finish(name, args, pre, r) ==
    /\ \E fate \in (IF r.end = "returned" /\ r.oob # {}
                    THEN {"returned", "killed"} ELSE {r.end}) :
         /\ last' = [ name |-> name, anchor |-> stack, args |-> args, pre |-> pre,
                      reads |-> r.reads, cursor |-> r.cursor, ret |-> r.ret,
                      end |-> fate, oob |-> r.oob, host |-> r.host ]
         /\ proc' = IF fate \in {"exited", "panicked", "killed"} THEN fate
                    ELSE "running"
    /\ memory' = r.mem
    /\ cwd' = r.cwd
    /\ dirs' = r.dirs
    /\ pos' = r.pos
    /\ steps' = steps + 1
    /\ UNCHANGED stack

\* The guest packs args at its stack; the handler runs on the result.  (The
\* quantifiers over one-element sets below name a value once.)
Packed(args) == PackArgs(memory, stack, args)

PathPtrs == {PathBase, PathBase + 4, TailBase, Beyond}
BufPtrs == {DataBase, Edge}

Exit ==
    /\ CanStep
    /\ \E status \in {0, 1} :
       \E pre \in { Packed(<< status >>) } :
       \E r \in { ___syscall1(pre, stack, cwd, dirs, pos) } :
         Finish("exit", << status >>, pre, r)

Chdir ==
    /\ CanStep
    /\ \E path_addr \in PathPtrs :
       \E pre \in { Packed(<< path_addr >>) } :
       \E r \in { ___syscall12(pre, stack, cwd, dirs, pos) } :
         Finish("chdir", << path_addr >>, pre, r)

Stub ==
    /\ CanStep
    /\ \E n \in Unimplemented :
       \E r \in { ___syscallStub(memory, n, 0, cwd, dirs, pos) } :
         Finish("stub", << >>, memory, r)

Getpid ==
    /\ CanStep
    /\ \E pid \in HostPids :
       \E r \in { ___syscall20(memory, pid, cwd, dirs, pos) } :
         Finish("getpid", << >>, memory, r)

Getppid ==
    /\ CanStep
    /\ \E pid \in HostPids :
       \E r \in { ___syscall64(memory, pid, cwd, dirs, pos) } :
         Finish("getppid", << >>, memory, r)

Rmdir ==
    /\ CanStep
    /\ \E pathname \in PathPtrs :
       \E pre \in { Packed(<< pathname >>) } :
       \E r \in { ___syscall40(pre, stack, cwd, dirs, pos) } :
         Finish("rmdir", << pathname >>, pre, r)

Getcwd ==
    /\ CanStep
    /\ \E buf_offset \in BufPtrs, size \in {0, 16} :
       \E pre \in { Packed(<< buf_offset, size >>) } :
       \E r \in { ___syscall183(pre, stack, cwd, dirs, pos) } :
         Finish("getcwd", << buf_offset, size >>, pre, r)

\* The guest allocator answers 0 or a block inside the region.
Mmap ==
    /\ CanStep
    /\ \E len \in {4, 8}, fd \in {-1, 3}, alloc \in {0, TailBase - 4} :
       \E args \in { << 0, len, 3, 34, fd, 0 >> } :
       \E pre \in { Packed(args) } :
       \E r \in { ___syscall192(pre, stack, alloc, cwd, dirs, pos) } :
         /\ alloc = 0 \/ alloc + len <= Size(memory)
         /\ fd # -1 => alloc = 0
         /\ Finish("mmap", args, pre, r)

Lseek ==
    /\ CanStep
    /\ \E fd \in OpenFds, high \in {0, 1}, low \in {5, -1},
          result_ptr \in BufPtrs, whence \in {0} :
       \E args \in { << fd, high, low, result_ptr, whence >> } :
       \E pre \in { Packed(args) } :
       \E r \in { ___syscall140(pre, stack, cwd, dirs, pos) } :
         Finish("lseek", args, pre, r)

\* The guest lays out an iovec array of n elements, three bytes each, one
\* after the other (from DataBase on, or from Edge on) and calls readv on it.
RECURSIVE IovWords(_, _)
IovWords(base, n) ==
    IF n = 0 THEN << >> ELSE << base, 3 >> \o IovWords(base + 3, n - 1)

Readv ==
    /\ CanStep
    /\ \E n \in 0 .. MaxIov, base \in BufPtrs, fd \in OpenFds :
       \E failAt \in 0 .. n :
       \E args \in { << fd, IovBase, n >> } :
       \E pre \in { PackArgs(Packed(args), IovBase, IovWords(base, n)) } :
       \E r \in { ___syscall145(pre, stack, failAt, cwd, dirs, pos) } :
         /\ n = 0 => base = DataBase
         /\ Finish("readv", args, pre, r)

Stat ==
    /\ CanStep
    /\ \E pathname \in {PathBase, TailBase}, buf \in BufPtrs :
       \E pre \in { Packed(<< pathname, buf >>) } :
       \E r \in { ___syscall195(pre, stack, cwd, dirs, pos) } :
         Finish("stat", << pathname, buf >>, pre, r)

Fstat ==
    /\ CanStep
    /\ \E fd \in FdChoices, buf \in BufPtrs :
       \E pre \in { Packed(<< fd, buf >>) } :
       \E r \in { ___syscall197(pre, stack, cwd, dirs, pos) } :
         Finish("fstat", << fd, buf >>, pre, r)

Fcntl ==
    /\ CanStep
    /\ \E fd \in FdChoices, cmd \in {2, 3, 13, 14, 15} :
       \E pre \in { Packed(<< fd, cmd >>) } :
       \E r \in { ___syscall221(pre, stack, cwd, dirs, pos) } :
         Finish("fcntl", << fd, cmd >>, pre, r)

Prlimit64 ==
    /\ CanStep
    /\ \E who \in { << 0, 3, 0 >>, << 1, 7, DataBase >> },
          old_limit \in {0} \cup BufPtrs :
       \E args \in { << who[1], who[2], who[3], old_limit >> } :
       \E pre \in { Packed(args) } :
       \E r \in { ___syscall340(pre, stack, cwd, dirs, pos) } :
         Finish("prlimit64", args, pre, r)

\* The guest grows its memory: the new bytes are zero.
Grow ==
    /\ CanStep
    /\ memory' = memory \o Zeroes(GrowBytes)
    /\ steps' = steps + 1
    /\ UNCHANGED << cwd, dirs, pos, proc, stack, last >>

\* The guest moves its stack: the next argument block is packed elsewhere.
MoveStack ==
    /\ CanStep
    /\ \E a \in Anchors \ {stack} : stack' = a
    /\ steps' = steps + 1
    /\ UNCHANGED << memory, cwd, dirs, pos, proc, last >>

Next ==
    \/ Exit \/ Chdir \/ Stub \/ Getpid \/ Getppid \/ Rmdir \/ Getcwd \/ Mmap
    \/ Lseek \/ Readv \/ Stat \/ Fstat \/ Fcntl \/ Prlimit64 \/ Grow \/ MoveStack

Spec == Init /\ [][Next]_vars

(******************************* claims ************************************)
Returned(name) == last.name = name /\ last.end = "returned"

\* The offsets i below n for which a + i lay inside the region when the last
\* call was made.
InBounds(a, n) == { i \in 0 .. (n - 1) : a + i >= 0 /\ a + i < Size(last.pre) }

\* C1: every handler that dereferences a guest-supplied offset rejects an
\* access that ends beyond the current memory size: no call reads or writes
\* a byte outside the guest memory region.
C1_NoAccessOutsideRegion ==
    last.name \in {"chdir", "rmdir", "getcwd", "lseek", "readv", "stat", "prlimit64"}
        => last.oob = {}

\* The result of the host lseek the last lseek call made.
HostSeek == last.host[1].ret

\* C2: when the host seek of an lseek call fails, the handler returns -1 and
\* the four bytes at the guest's result pointer are as they were.
C2_LseekFailureReturnsMinusOne ==
    (Returned("lseek") /\ HostSeek < 0)
        => /\ last.ret = -1
           /\ \A i \in InBounds(last.args[4], 4) :
                memory[last.args[4] + i + 1] = last.pre[last.args[4] + i + 1]

\* The host reads of the last readv call, and what they say.
RECURSIVE SumRets(_)
SumRets(calls) == IF calls = << >> THEN 0 ELSE Head(calls).ret + SumRets(Tail(calls))

Failed(calls) == { j \in 1 .. Len(calls) : calls[j].ret < 0 }

\* Element j (from 1) of the iovec array the guest laid out for the call.
IovBaseOf(j) == WordAt(last.pre, last.args[2] + IovecBytes * (j - 1))

\* C3: readv returns -1 when the host read of an element fails, does no host
\* read after that element, and leaves in guest memory the bytes the earlier
\* elements transferred; when every read succeeds it returns the sum of the
\* byte counts.
C3_ReadvFailureDiscardsCount ==
    Returned("readv") =>
        LET reads == last.host
            good == { j \in 1 .. Len(reads) : reads[j].ret >= 0 }
            start == pos - SumRets(SubSeq(reads, 1, Cardinality(good)))
            before(j) == SumRets(SubSeq(reads, 1, j - 1))
        IN  /\ Len(reads) <= last.args[3]
            /\ Failed(reads) # {} =>
                 /\ Failed(reads) = { Len(reads) }
                 /\ last.ret = -1
            /\ Failed(reads) = {} =>
                 /\ Len(reads) = last.args[3]
                 /\ last.ret = SumRets(reads)
            /\ \A j \in good :
               \A i \in InBounds(IovBaseOf(j), reads[j].ret) :
                 memory[IovBaseOf(j) + i + 1] = FileByte(start + before(j) + i + 1)

\* C3 happens: the first of two reads moved three bytes, the second failed.
C3_Witness ==
    /\ Returned("readv")
    /\ last.args[3] = 2
    /\ Len(last.host) = 2
    /\ last.host[1].ret = 3
    /\ last.host[2].ret < 0
    /\ last.ret = -1
    /\ last.oob = {}
    /\ memory[IovBaseOf(1) + 1] # last.pre[IovBaseOf(1) + 1]

\* C4: exit alone ends the process; a call of any other handler that stays
\* inside guest memory ends with the process running.
C4_OnlyExitIsFatal ==
    /\ proc = "exited" => last.name = "exit"
    /\ (last.name # "exit" /\ last.oob = {}) => proc = "running"

\* What was guest memory when the last call was made is as it was then.
Untouched == SubSeq(memory, 1, Size(last.pre)) = last.pre

\* Guest memory differs from what it was when the last call was made at most
\* in [a, a + n).
OnlyWindowChanged(a, n) ==
    \A x \in 0 .. (Size(last.pre) - 1) :
        (x < a \/ x >= a + n) => memory[x + 1] = last.pre[x + 1]

\* C5: stat and fstat return the host's code and write nothing when it is not
\* 0; when it is 0 they return 0 and the stat record is in guest memory at the
\* buffer address.
C5_StatPropagatesHostCode ==
    (Returned("stat") \/ Returned("fstat")) =>
        LET code == last.host[1].ret
            buf == last.args[2]
        IN  /\ code # 0 => (last.ret = code /\ Untouched)
            /\ code = 0 =>
                 /\ last.ret = 0
                 /\ SubSeq(memory, buf + 1, buf + StatLen) = StatRecord(HostStat)
                 /\ OnlyWindowChanged(buf, StatLen)

\* C5 happens: the host refused an fstat, or a stat of a path that is in
\* guest memory, and the call returned.
C5_Witness ==
    /\ Returned("stat") \/ Returned("fstat")
    /\ last.host[1].ret = -1
    /\ last.ret = -1
    /\ last.oob = {}

C7_PrlimitReportsUnlimited ==
    Returned("prlimit64") =>
        LET old_limit == last.args[4]
        IN  /\ last.ret = 0
            /\ last.host = << >>
            /\ old_limit = 0 => Untouched
            /\ old_limit # 0 =>
                 /\ \A i \in InBounds(old_limit, 16) : memory[old_limit + i + 1] = 255
                 /\ OnlyWindowChanged(old_limit, 16)

\* C7 happens: a call with a new limit and an old-limit address inside guest
\* memory returned.
C7_Witness ==
    /\ Returned("prlimit64")
    /\ last.args[3] # 0
    /\ last.args[4] # 0
    /\ last.oob = {}
    /\ SubSeq(memory, last.args[4] + 13, last.args[4] + 16) = << 255, 255, 255, 255 >>

\* C8: fcntl returns 0 for the commands 2, 13 and 14 and -1 for any other,
\* whatever the descriptor, and leaves guest memory alone.
C8_FcntlByCommandOnly ==
    Returned("fcntl") =>
        /\ last.ret = (IF last.args[2] \in {2, 13, 14} THEN 0 ELSE -1)
        /\ Untouched

\* C8 happens: command 14 on a descriptor that is not open.
C8_Witness ==
    /\ Returned("fcntl")
    /\ last.args[1] \notin OpenFds
    /\ last.args[2] = 14
    /\ last.ret = 0

\* C9: getcwd writes the working directory's bytes and one NUL at the buffer
\* offset, whatever size it is given, writes nothing else and returns the
\* buffer offset.
C9_GetcwdIgnoresSize ==
    Returned("getcwd") =>
        LET buf_offset == last.args[1]
            text == cwd \o << 0 >>
        IN  /\ last.ret = buf_offset
            /\ \A i \in InBounds(buf_offset, Len(text)) :
                 memory[buf_offset + i + 1] = text[i + 1]
            /\ OnlyWindowChanged(buf_offset, Len(text))

\* C9 happens: the size given is too small for the path and its NUL, and the
\* NUL went where another byte was.
C9_Witness ==
    /\ Returned("getcwd")
    /\ last.args[2] < Len(cwd) + 1
    /\ last.oob = {}
    /\ last.pre[last.args[1] + Len(cwd) + 1] # 0
    /\ memory[last.args[1] + Len(cwd) + 1] = 0

\* The number of arguments each handler takes from its cursor.
Arity ==
    [ exit |-> 1, chdir |-> 1, rmdir |-> 1, getcwd |-> 2, mmap |-> 6, lseek |-> 5,
      readv |-> 3, stat |-> 2, fstat |-> 2, fcntl |-> 2, prlimit64 |-> 4 ]

\* C10: a handler that has read N arguments leaves its cursor 4 * N bytes
\* past the anchor; its k-th read is the little-endian word at
\* anchor + 4 * (k - 1), which is the k-th word the guest packed.
C10_CursorAdvancesBySlots ==
    last.name \in DOMAIN Arity =>
        /\ Len(last.reads) = Arity[last.name]
        /\ last.cursor = last.anchor + 4 * Len(last.reads)
        /\ \A k \in 1 .. Len(last.reads) :
             /\ last.reads[k] = WordAt(last.pre, last.anchor + 4 * (k - 1))
             /\ last.reads[k] = last.args[k]

\* C10 happens: an lseek whose five words, one of them negative, were packed
\* at the second anchor.
C10_Witness ==
    /\ last.name = "lseek"
    /\ last.anchor = 4
    /\ last.cursor = 24
    /\ last.reads[2] = 1
    /\ last.reads[3] = -1
    /\ last.reads[5] = 0

\* C11: an lseek whose host seek succeeds seeks by the low offset word alone:
\* whatever the high word is, a SEEK_SET request leaves the descriptor at the
\* low word; the offset reached is written as a 32-bit little-endian value at
\* the result pointer, nothing else is written, and the handler returns 0.
C11_LseekSeeksByLowWord ==
    (Returned("lseek") /\ HostSeek >= 0) =>
        LET low == last.args[3]
            result_ptr == last.args[4]
            whence == last.args[5]
        IN  /\ last.ret = 0
            /\ pos = HostSeek
            /\ whence = 0 => HostSeek = low
            /\ \A i \in InBounds(result_ptr, 4) :
                 memory[result_ptr + i + 1] = ToBytes(HostSeek)[i + 1]
            /\ OnlyWindowChanged(result_ptr, 4)

\* C11 happens: after a readv had moved the descriptor to offset 3 (its
\* bytes are in guest memory), a SEEK_SET request for low word 5 under a
\* non-zero high word wrote 5 and returned 0.
C11_Witness ==
    /\ Returned("lseek")
    /\ last.args[2] = 1
    /\ last.args[3] = 5
    /\ last.args[5] = 0
    /\ last.oob = {}
    /\ last.ret = 0
    /\ pos = 5
    /\ SubSeq(memory, last.args[4] + 1, last.args[4] + 4) = << 5, 0, 0, 0 >>
    /\ SubSeq(last.pre, last.args[4] + 1, last.args[4] + 4) # << 5, 0, 0, 0 >>
    /\ SubSeq(last.pre, DataBase + 1, DataBase + 3) = ReadData(0, 3)

====
